---- MODULE Spec2Model ----
(***************************************************************************)
(* gflow: a command dispatcher that composes git commands into the         *)
(* workflow operations up, publish, unpublish, pr and land (src/gflow.py). *)
(* One behaviour of the model is one invocation of the script: main        *)
(* resolves the operation, the handler issues its git calls one at a time, *)
(* and main's except clauses turn a raised failure into an exit status.    *)
(* The repository (working tree, local refs, origin's refs) is the         *)
(* environment: every git call reads and changes it, and may fail.         *)
(***************************************************************************)
EXTENDS Integers, Sequences, FiniteSets, TLC

(* ------------------------------ bounds -------------------------------- *)
\* longest argument list (argv[1:]) of an invocation of any operation
MaxArgs == 2
\* longest operand list of an "unpublish" invocation
MaxBranches == 3
\* commits are 0..MaxCommit; a smaller commit is an ancestor of a larger one
MaxCommit == 2
\* how many git calls of one invocation may fail for a reason outside the repository
MaxFaults == 1

\* pushes of other actors to origin while the process runs (none in Spec)
MaxOthers == 1

(* ------------------------------ tokens -------------------------------- *)
None == "None"

OptionStrings == {"--on", "--no-verify", "--rm"}

BranchTokens == {"main", "master", "fx", "fy"}

OpTokens == {"current-branch", "up", "publish", "unpublish", "pr", "land"}

Tokens == OpTokens \cup OptionStrings \cup BranchTokens

\* the names git may be asked to resolve as a ref
RefUniverse == Tokens \cup {"HEAD"}

Commits == 0..MaxCommit

SeqUpTo(S, n) == UNION {[1..k -> S] : k \in 0..n}

\* argv[0] is a path, kept as its components; argv[1:] are plain tokens
BinPaths == {<<"gflow">>} \cup {<<"bin", n>> : n \in OpTokens}

\* anything may stand first; options and branch names follow
OperandTokens == OptionStrings \cup BranchTokens

GeneralArgvs ==
  {<<b>> : b \in BinPaths}
  \cup {<<b, v>> \o s : b \in BinPaths, v \in Tokens, s \in SeqUpTo(OperandTokens, MaxArgs - 1)}

UnpublishArgvs ==
  {<<(<<"bin", "unpublish">>)>> \o s : s \in SeqUpTo(BranchTokens \cup {"--rm"}, MaxBranches)}

Argvs == GeneralArgvs \cup UnpublishArgvs

VARIABLES
  argv,            \* sys.argv
  pc,              \* position of the process in main / the handler
  method,          \* main's local: the resolved handler, or None
  args,            \* main's local: the arguments handed to the handler
  pargs,           \* the handler's parsed arguments
  current_branch,  \* do_unpublish's local current_branch
  source,          \* do_publish / do_pr / do_land: the local source
  branch,          \* do_up: the local branch
  branches,        \* do_unpublish: the local branches
  org_repo,        \* do_pr: the groups parsed out of the origin URL
  idx,             \* do_unpublish: index of the branch being processed
  remote_exists,   \* _publish's local
  calls,           \* every git call issued so far, with its exit status
  stdout,          \* what the script printed to standard output
  stderr,          \* what the script printed to standard error
  exit,            \* the process exit status, -1 while running
  raised,          \* the failure that ended the process, None if none
  unstaged,        \* working tree differs from the index
  staged,          \* index differs from HEAD
  head,            \* checked-out branch, "HEAD" when detached
  local,           \* local branch refs: name -> commit
  origin,          \* origin's branch refs: name -> commit
  remote_url,      \* the URL of the remote "origin", as git prints it
  tracking,        \* remote-tracking refs origin/<name>: name -> commit
  origin0,         \* origin's refs when the process started
  local0,          \* local refs when the process started
  head0,           \* the checked-out branch when the process started
  faults,          \* git calls that failed for a reason outside the repository
  others           \* the pushes other actors made to origin while the process ran

localVars == <<pargs, current_branch, source, branch, branches, org_repo, idx, remote_exists>>

outVars == <<pc, stdout, stderr, exit, raised>>

procVars == <<argv, method, args, localVars, calls, outVars>>

repoVars == <<unstaged, staged, head, local, origin, tracking>>

histVars == <<origin0, local0, head0>>

configVars == <<remote_url>>

envVars == <<others>>

vars == <<procVars, repoVars, configVars, histVars, faults, envVars>>

(* --------------------------- pure helpers ----------------------------- *)
\* Path(argv[0]).name: the last component of the path
Path_name(path) == path[Len(path)]

\* name.replace("-", "_") on the names of the model
replace(name) ==
  CASE name = "current-branch" -> "current_branch"
    [] name = "--on"           -> "__on"
    [] name = "--no-verify"    -> "__no_verify"
    [] name = "--rm"           -> "__rm"
    [] OTHER                   -> name

\* the attributes of a GFlow object whose names start with "do_"
GFlow_attrs ==
  {"do_current_branch", "do_up", "do_publish", "do_unpublish", "do_pr", "do_land"}
\* a variant of GFlow.method that falls back to a handler instead of None
GFlow_method_fallback(name) ==
  LET sanitized == "do_" \o replace(name)
  IN  IF sanitized \in GFlow_attrs THEN sanitized ELSE "do_current_branch"

\* GFlow.method: the bound handler, or None (the implicit return)
GFlow_method(name) ==
  LET sanitized == "do_" \o replace(name)
  IN  IF sanitized \in GFlow_attrs THEN sanitized ELSE None

\* the ArgumentParser each handler builds
ArgumentParser(m) ==
  CASE m = "do_up"        -> [value |-> {"--on"}, flag |-> {},              nargs |-> "?"]
    [] m = "do_publish"   -> [value |-> {},       flag |-> {"--no-verify"}, nargs |-> "?"]
    [] m = "do_unpublish" -> [value |-> {},       flag |-> {"--rm"},        nargs |-> "*"]
    [] m = "do_pr"        -> [value |-> {"--on"}, flag |-> {"--no-verify"}, nargs |-> "?"]
    [] m = "do_land"      -> [value |-> {"--on"}, flag |-> {"--no-verify"}, nargs |-> "?"]

Namespace0 ==
  [error |-> FALSE, on |-> None, no_verify |-> FALSE, rm |-> FALSE,
   positional |-> <<>>, closed |-> FALSE]

RECURSIVE parse_scan(_, _, _, _)
\* argparse, left to right: options may come anywhere; the positional takes the
\* first unbroken run of plain tokens only, and whatever is left over is an error
parse_scan(p, a, k, ns) ==
  IF k > Len(a) THEN ns
  ELSE
    LET t  == a[k]
        cl == [ns EXCEPT !.closed = (ns.positional # <<>>)]
        bad == [ns EXCEPT !.error = TRUE]
    IN  IF t \in OptionStrings
        THEN IF t \in p.flag
             THEN parse_scan(p, a, k + 1,
                    IF t = "--rm" THEN [cl EXCEPT !.rm = TRUE]
                                  ELSE [cl EXCEPT !.no_verify = TRUE])
             ELSE IF t \in p.value /\ k + 1 <= Len(a) /\ a[k + 1] \notin OptionStrings
             THEN parse_scan(p, a, k + 2, [cl EXCEPT !.on = a[k + 1]])
             ELSE bad
        ELSE IF ns.closed \/ (p.nargs = "?" /\ ns.positional # <<>>)
             THEN bad
             ELSE parse_scan(p, a, k + 1, [ns EXCEPT !.positional = Append(@, t)])

\* ap.parse_args(args)
parse_args(m, a) == parse_scan(ArgumentParser(m), a, 1, Namespace0)

\* "x or y" on an optional string
Or(x, y) == IF x = None \/ x = "" THEN y ELSE x

\* pargs.source / pargs.branch of a parser whose positional is nargs='?'
Positional(ns) == IF ns.positional = <<>> THEN None ELSE ns.positional[1]

\* str.strip() on git's one-line output
strip(s) ==
  IF \E t \in RefUniverse : s = t \o "\n"
  THEN CHOOSE t \in RefUniverse : s = t \o "\n"
  ELSE s

(* ------------------------ the origin URL pattern ---------------------- *)
\* a string the pattern reads is kept as its sequence of characters
WordChars ==
  {"a", "b", "c", "d", "e", "f", "g", "h", "i", "j", "k", "l", "m", "n", "o", "p", "q",
   "r", "s", "t", "u", "v", "w", "x", "y", "z", "_"}

\* [\w.@-]
HostClass == WordChars \cup {".", "@", "-"}

\* [\w.-]
NameClass == WordChars \cup {".", "-"}

RECURSIVE run_length(_, _, _)
\* how many characters of s, from position k on, a greedy class+ takes
run_length(s, k, class) ==
  IF k <= Len(s) /\ s[k] \in class THEN 1 + run_length(s, k + 1, class) ELSE 0

\* the None a failed match returns
NoMatch == [matched |-> FALSE, group1 |-> <<>>, group2 |-> <<>>]

\* _ORIGIN_PATTERN.match(s): groups 1 and 2, or no match. Neither ":" nor "/" is in
\* the class before it, so only the longest run of each class can match; the
\* last class takes its longest run and the optional (\.git) group what is left
ORIGIN_PATTERN_match(s) ==
  LET n1 == run_length(s, 1, HostClass)
      colon == 1 + n1
      n2 == run_length(s, colon + 1, NameClass)
      slash == colon + 1 + n2
      n3 == run_length(s, slash + 1, NameClass)
  IN  IF /\ n1 >= 1 /\ colon <= Len(s) /\ s[colon] = ":"
         /\ n2 >= 1 /\ slash <= Len(s) /\ s[slash] = "/"
         /\ n3 >= 1
      THEN [matched |-> TRUE,
            group1 |-> SubSeq(s, colon + 1, slash - 1),
            group2 |-> SubSeq(s, slash + 1, slash + n3)]
      ELSE NoMatch

\* what "git remote get-url origin" prints in the modelled repository
OriginUrl == <<"g", "@", "h", ":", "o", "/", "r", ".", "g", "i", "t", "\n">>

\* the same URL without the ".git" suffix
OriginUrlBare == <<"g", "@", "h", ":", "o", "/", "r", "\n">>

\* an https URL: its ":" is followed by "/"
OriginUrlHttps ==
  <<"h", "t", "t", "p", "s", ":", "/", "/", "h", "/", "o", "/", "r", ".", "g", "i", "t", "\n">>

\* the origin URLs of the modelled repositories, as git prints them
OriginUrls == {OriginUrl, OriginUrlBare, OriginUrlHttps}

(* --------------------------- git, the tool ---------------------------- *)
Set(f, n, c) == [x \in (DOMAIN f) \cup {n} |-> IF x = n THEN c ELSE f[x]]

Del(f, n) == [x \in (DOMAIN f) \ {n} |-> f[x]]

\* a ref of a ref table, as a sequence: empty when the ref does not exist
RefOf(f, n) == IF n \in DOMAIN f THEN <<f[n]>> ELSE <<>>

\* the refspecs the script builds by concatenation, read back as git reads them
ForcedRefspecs == {<<"+" \o s \o ":" \o d, s, d>> : s \in RefUniverse, d \in RefUniverse}

PlainRefspecs == {<<s \o ":" \o d, s, d>> : s \in RefUniverse, d \in RefUniverse}

parse_refspec(x) ==
  IF \E r \in ForcedRefspecs : r[1] = x
  THEN LET r == CHOOSE r \in ForcedRefspecs : r[1] = x
       IN  [force |-> TRUE, src |-> r[2], dst |-> r[3]]
  ELSE IF \E r \in PlainRefspecs : r[1] = x
  THEN LET r == CHOOSE r \in PlainRefspecs : r[1] = x
       IN  [force |-> FALSE, src |-> r[2], dst |-> r[3]]
  ELSE [force |-> FALSE, src |-> x, dst |-> None]

\* a detached HEAD sits on the commit fx pointed at when the process started
HasRev(s) == s = "HEAD" \/ s \in DOMAIN local

Rev(s) ==
  IF s = "HEAD" THEN (IF head = "HEAD" THEN local0["fx"] ELSE local[head]) ELSE local[s]

\* one result of a git call: exit status, captured output, the repository after
Result(rc, out, h, l, o, t) ==
  [rc |-> rc, stdout |-> out, head |-> h, local |-> l, origin |-> o, tracking |-> t]

Unchanged(rc, out) == Result(rc, out, head, local, origin, tracking)

\* git fetch origin <refspec>
git_fetch(refspec) ==
  LET r == parse_refspec(refspec)
  IN  IF r.src \notin DOMAIN origin THEN Unchanged(128, "")
      ELSE IF r.dst = None
      THEN Result(0, "", head, local, origin, Set(tracking, r.src, origin[r.src]))
      ELSE IF r.dst = head THEN Unchanged(128, "")
      ELSE IF ~r.force /\ r.dst \in DOMAIN local /\ local[r.dst] > origin[r.src]
      THEN Unchanged(1, "")
      ELSE Result(0, "", head, Set(local, r.dst, origin[r.src]), origin,
                  Set(tracking, r.src, origin[r.src]))

\* git push origin <src>:<dst> [--no-verify] [--set-upstream] [--force-with-lease]
\* (and --force, which the script never passes)
git_push(refspec, flags) ==
  LET r == parse_refspec(refspec)
      lease == IF r.dst \in DOMAIN origin
               THEN r.dst \in DOMAIN tracking /\ tracking[r.dst] = origin[r.dst]
               ELSE r.dst \notin DOMAIN tracking
  IN  IF r.dst = None \/ ~HasRev(r.src) THEN Unchanged(1, "")
      ELSE IF "--force-with-lease" \in flags /\ ~lease THEN Unchanged(1, "")
      ELSE IF /\ "--force-with-lease" \notin flags /\ "--force" \notin flags
              /\ r.dst \in DOMAIN origin /\ origin[r.dst] > Rev(r.src)
      THEN Unchanged(1, "")
      ELSE Result(0, "", head, local, Set(origin, r.dst, Rev(r.src)),
                  Set(tracking, r.dst, Rev(r.src)))

\* git push origin --delete <branch>
git_push_delete(b) ==
  IF b \notin DOMAIN origin THEN Unchanged(1, "")
  ELSE Result(0, "", head, local, Del(origin, b), Del(tracking, b))

\* git checkout <branch>
git_checkout(b) ==
  IF b \notin DOMAIN local THEN Unchanged(1, "")
  ELSE Result(0, "", b, local, origin, tracking)

\* git branch -d <branch>
git_branch_d(b) ==
  IF b \notin DOMAIN local \/ b = head THEN Unchanged(1, "")
  ELSE Result(0, "", head, Del(local, b), origin, tracking)

\* git rebase <on>: in a linear history the branch ends on the later commit
git_rebase(on) ==
  IF on \notin DOMAIN local \/ unstaged \/ staged THEN Unchanged(1, "")
  ELSE IF head = "HEAD" \/ local[on] <= local[head] THEN Unchanged(0, "")
  ELSE Result(0, "", head, Set(local, head, local[on]), origin, tracking)

\* what the command does when nothing outside the repository goes wrong
git_natural(cmd) ==
  IF cmd = <<"diff", "--exit-code">> THEN Unchanged(IF unstaged THEN 1 ELSE 0, "")
  ELSE IF cmd = <<"diff", "--cached", "--exit-code">>
  THEN Unchanged(IF staged THEN 1 ELSE 0, "")
  ELSE IF cmd = <<"status">> THEN Unchanged(0, "")
  ELSE IF cmd = <<"rev-parse", "--abbrev-ref", "HEAD">> THEN Unchanged(0, head \o "\n")
  ELSE IF cmd = <<"remote", "get-url", "origin">> THEN Unchanged(0, remote_url)
  ELSE IF cmd[1] = "fetch" THEN git_fetch(cmd[3])
  ELSE IF cmd[1] = "rebase" THEN git_rebase(cmd[2])
  ELSE IF cmd[1] = "checkout" THEN git_checkout(cmd[2])
  ELSE IF cmd[1] = "branch" THEN git_branch_d(cmd[3])
  ELSE IF cmd[3] = "--delete" THEN git_push_delete(cmd[4])
  ELSE git_push(cmd[3], {cmd[k] : k \in 4..Len(cmd)})

\* the call ends with git's fatal status for a reason outside the repository
\* (network, hook, lock, conflict) and leaves the repository as it was
git_fault(cmd) == Unchanged(128, IF cmd[1] = "remote" THEN <<>> ELSE "")

\* git checkout of another branch on a tree with pending changes: git carries
\* the changes over (git_natural), or refuses when the switch would overwrite
\* them; which of the two depends on the files, which the model does not hold
git_refusals(cmd) ==
  IF cmd[1] = "checkout" /\ cmd[2] # head /\ cmd[2] \in DOMAIN local /\ (unstaged \/ staged)
  THEN {Unchanged(1, "")}
  ELSE {}

\* what the command can do when nothing outside the repository goes wrong
git_outcomes(cmd) == {git_natural(cmd)} \cup git_refusals(cmd)

\* subprocess.run(["git"] + args): the results it can have
subprocess_run(cmd) ==
  git_outcomes(cmd) \cup (IF faults < MaxFaults THEN {git_fault(cmd)} ELSE {})

(* ------------------------------ Init ---------------------------------- *)
\* the local branches: main, and two work branches one commit ahead of it
Local0 == [n \in {"main", "fx", "fy"} |-> IF n = "main" THEN 0 ELSE 1]

\* origin: main at any commit (behind, level with or ahead of the work
\* branches), fy published, fx published (one commit behind) or not
Origins ==
  {[n \in {"main", "fy"} |-> IF n = "main" THEN m ELSE 1] : m \in Commits}
  \cup {[n \in {"main", "fx", "fy"} |-> IF n = "main" THEN m ELSE IF n = "fx" THEN 0 ELSE 1] :
          m \in Commits}

Init ==
  /\ argv \in Argvs
  /\ pc = "main"
  /\ method = None
  /\ args = <<>>
  /\ pargs = Namespace0
  /\ current_branch = None
  /\ source = None
  /\ branch = None
  /\ branches = <<>>
  /\ org_repo = NoMatch
  /\ idx = 0
  /\ remote_exists = FALSE
  /\ calls = <<>>
  /\ stdout = <<>>
  /\ stderr = <<>>
  /\ exit = -1
  /\ raised = None
  /\ unstaged \in BOOLEAN
  /\ staged \in BOOLEAN
  /\ head \in {"main", "fx", "HEAD"}
  /\ local = Local0
  /\ origin \in Origins
  /\ tracking = origin
  /\ remote_url \in OriginUrls
  /\ origin0 = origin
  /\ local0 = local
  /\ head0 = head
  /\ faults = 0
  /\ others = <<>>

(* ------------------------- steps and failures ------------------------- *)
Step(p, status, kind, errs, outs) ==
  /\ pc' = p
  /\ exit' = status
  /\ raised' = kind
  /\ stderr' = stderr \o errs
  /\ stdout' = stdout \o outs

Goto(p) == Step(p, exit, raised, <<>>, <<>>)

\* the handler returned: main falls off its end and the process exits with 0
Return(outs) == Step("done", 0, None, <<>>, outs)
\* a variant of main's "except CalledProcessError" that exits with status 1
except_CalledProcessError_one(kind, rc) ==
  Step("done", 1, "CalledProcessError",
       IF kind = "cap" /\ rc = 128 THEN <<"e.stderr">> ELSE <<>>, <<>>)

\* main's "except CalledProcessError": print e.stderr if there is any, exit
\* with e.returncode. Only _git_cap captures the error stream
except_CalledProcessError(kind, rc) ==
  Step("done", rc, "CalledProcessError",
       IF kind = "cap" /\ rc = 128 THEN <<"e.stderr">> ELSE <<>>, <<>>)

\* main's "except FlowError": print the message if there is one, exit with e.status
except_FlowError(message, status) ==
  Step("done", status, "FlowError", IF message # None THEN <<message>> ELSE <<>>, <<>>)

FlowError_status == 1

\* ap.parse_args on bad arguments: ap.error prints and raises SystemExit(2),
\* which no except clause of main catches
argparse_error == Step("done", 2, "SystemExit", <<"usage: error">>, <<>>)

\* an exception main does not catch: the interpreter prints it and exits with 1
uncaught(kind) == Step("done", 1, kind, <<"Traceback">>, <<>>)

\* _git_cap / _git_run: the call is logged with its exit status and the
\* repository becomes what the call left
subprocess_call(kind, cmd, r) ==
  /\ calls' = Append(calls, [kind |-> kind, cmd |-> cmd, rc |-> r.rc])
  /\ head' = r.head
  /\ local' = r.local
  /\ origin' = r.origin
  /\ tracking' = r.tracking
  /\ faults' = IF r \in git_outcomes(cmd) THEN faults ELSE faults + 1
  /\ UNCHANGED <<unstaged, staged, configVars, histVars, envVars, argv, method, args>>

NoCall == UNCHANGED <<calls, repoVars, configVars, histVars, envVars, faults, argv>>

(* ------------------------------- main --------------------------------- *)
\* a variant of Entry in which up, too, starts with _no_changes
Entry_up_checks(m) ==
  CASE m = "do_current_branch" -> "do_current_branch"
    [] m = "do_unpublish"      -> "do_unpublish"
    [] OTHER                   -> "no_changes"

\* the handler's first position
Entry(m) ==
  CASE m = "do_current_branch" -> "do_current_branch"
    [] m = "do_up"             -> "do_up"
    [] m = "do_unpublish"      -> "do_unpublish"
    [] OTHER                   -> "no_changes"
\* a variant of main that tries the first argument before the invocation name
main_argument_first ==
  /\ pc = "main"
  /\ LET bin_name == Path_name(argv[1])
         first    == IF Len(argv) > 1 THEN GFlow_method(argv[2]) ELSE None
         second   == first = None
         m        == IF second THEN GFlow_method(bin_name) ELSE first
         a        == IF second THEN Tail(argv) ELSE SubSeq(argv, 3, Len(argv))
     IN  /\ method' = m
         /\ args' = a
         /\ IF m = None THEN Step("done", 1, None, <<>>, <<"Usage: {} action [opts...]">>)
            ELSE IF m = "do_current_branch" /\ a # <<>> THEN uncaught("TypeError")
            ELSE Goto(Entry(m))
  /\ NoCall
  /\ UNCHANGED localVars

main ==
  /\ pc = "main"
  /\ LET bin_name == Path_name(argv[1])
         first    == GFlow_method(bin_name)
         second   == first = None /\ Len(argv) > 1
         m        == IF second THEN GFlow_method(argv[2]) ELSE first
         a        == IF second THEN SubSeq(argv, 3, Len(argv)) ELSE Tail(argv)
     IN  /\ method' = m
         /\ args' = a
         /\ IF m = None THEN Step("done", 1, None, <<>>, <<"Usage: {} action [opts...]">>)
            ELSE IF m = "do_current_branch" /\ a # <<>> THEN uncaught("TypeError")
            ELSE Goto(Entry(m))
  /\ NoCall
  /\ UNCHANGED localVars

(* ------------------------- do_current_branch -------------------------- *)
RevParseHead == <<"rev-parse", "--abbrev-ref", "HEAD">>

do_current_branch ==
  /\ pc = "do_current_branch"
  /\ \E r \in subprocess_run(RevParseHead) :
       /\ subprocess_call("cap", RevParseHead, r)
       /\ IF r.rc = 0 THEN Return(<<strip(r.stdout)>>)
          ELSE except_CalledProcessError("cap", r.rc)
  /\ UNCHANGED localVars

(* ------------------------------- do_up -------------------------------- *)
do_up ==
  /\ pc = "do_up"
  /\ LET ns == parse_args(method, args)
     IN  IF ns.error
         THEN argparse_error /\ UNCHANGED <<pargs, branch>>
         ELSE /\ pargs' = ns
              /\ branch' = Positional(ns)
              /\ Goto(IF Positional(ns) = None THEN "up_current_branch" ELSE "up_fetch")
  /\ NoCall
  /\ UNCHANGED <<method, args, current_branch, source, branches, org_repo, idx, remote_exists>>

do_up_current_branch ==
  /\ pc = "up_current_branch"
  /\ \E r \in subprocess_run(RevParseHead) :
       /\ subprocess_call("cap", RevParseHead, r)
       /\ IF r.rc = 0
          THEN branch' = strip(r.stdout) /\ Goto("up_fetch")
          ELSE UNCHANGED branch /\ except_CalledProcessError("cap", r.rc)
  /\ UNCHANGED <<pargs, current_branch, source, branches, org_repo, idx, remote_exists>>
\* a variant of do_up_fetch that rebases even when branch = on
do_up_fetch_always_rebase ==
  /\ pc = "up_fetch"
  /\ LET on  == Or(pargs.on, "main")
         cmd == <<"fetch", "origin", "+" \o on \o ":" \o on>>
     IN  \E r \in subprocess_run(cmd) :
           /\ subprocess_call("run", cmd, r)
           /\ IF r.rc # 0 THEN except_CalledProcessError("run", r.rc)
              ELSE Goto("up_rebase")
  /\ UNCHANGED localVars

\* a variant of do_up_fetch that goes on to the rebase whatever the fetch did
do_up_fetch_continue ==
  /\ pc = "up_fetch"
  /\ LET on  == Or(pargs.on, "main")
         cmd == <<"fetch", "origin", "+" \o on \o ":" \o on>>
     IN  \E r \in subprocess_run(cmd) :
           /\ subprocess_call("run", cmd, r)
           /\ IF branch # on THEN Goto("up_rebase")
              ELSE IF r.rc # 0 THEN except_CalledProcessError("run", r.rc)
              ELSE Return(<<>>)
  /\ UNCHANGED localVars

do_up_fetch ==
  /\ pc = "up_fetch"
  /\ LET on  == Or(pargs.on, "main")
         cmd == <<"fetch", "origin", "+" \o on \o ":" \o on>>
     IN  \E r \in subprocess_run(cmd) :
           /\ subprocess_call("run", cmd, r)
           /\ IF r.rc # 0 THEN except_CalledProcessError("run", r.rc)
              ELSE IF branch # on THEN Goto("up_rebase")
              ELSE Return(<<>>)
  /\ UNCHANGED localVars

do_up_rebase ==
  /\ pc = "up_rebase"
  /\ LET on  == Or(pargs.on, "main")
         cmd == <<"rebase", on>>
     IN  \E r \in subprocess_run(cmd) :
           /\ subprocess_call("run", cmd, r)
           /\ IF r.rc # 0 THEN except_CalledProcessError("run", r.rc) ELSE Return(<<>>)
  /\ UNCHANGED localVars

(* ---------------------------- _no_changes ----------------------------- *)
\* where the handler goes on when _no_changes returns
AfterNoChanges(m) ==
  CASE m = "do_publish" -> "do_publish"
    [] m = "do_pr"      -> "do_pr"
    [] m = "do_land"    -> "do_land"
\* a variant of no_changes_diff that drops the except clause's status and raise
no_changes_diff_swallow ==
  /\ pc = "no_changes"
  /\ LET cmd == <<"diff", "--exit-code">>
     IN  \E r \in subprocess_run(cmd) :
           /\ subprocess_call("cap", cmd, r)
           /\ Goto("no_changes_cached")
  /\ UNCHANGED localVars

no_changes_diff ==
  /\ pc = "no_changes"
  /\ LET cmd == <<"diff", "--exit-code">>
     IN  \E r \in subprocess_run(cmd) :
           /\ subprocess_call("cap", cmd, r)
           /\ Goto(IF r.rc = 0 THEN "no_changes_cached" ELSE "no_changes_status")
  /\ UNCHANGED localVars

no_changes_diff_cached ==
  /\ pc = "no_changes_cached"
  /\ LET cmd == <<"diff", "--cached", "--exit-code">>
     IN  \E r \in subprocess_run(cmd) :
           /\ subprocess_call("cap", cmd, r)
           /\ Goto(IF r.rc = 0 THEN AfterNoChanges(method) ELSE "no_changes_status")
  /\ UNCHANGED localVars

\* either except clause: show the status quietly, then raise FlowError()
no_changes_status ==
  /\ pc = "no_changes_status"
  /\ LET cmd == <<"status">>
     IN  \E r \in subprocess_run(cmd) :
           /\ subprocess_call("run-quiet", cmd, r)
           /\ IF r.rc # 0 THEN except_CalledProcessError("run", r.rc)
              ELSE except_FlowError(None, FlowError_status)
  /\ UNCHANGED localVars

(* ----------------------- do_publish and _publish ---------------------- *)
\* a variant of IsMain that knows the name "main" only
IsMain_main_only(name) == name = "main"

IsMain(name) == name = "main" \/ name = "master"

do_publish ==
  /\ pc = "do_publish"
  /\ LET ns == parse_args(method, args)
     IN  IF ns.error
         THEN argparse_error /\ UNCHANGED <<pargs, source>>
         ELSE /\ pargs' = ns
              /\ source' = Positional(ns)
              /\ IF Positional(ns) = None THEN Goto("publish_current_branch")
                 ELSE IF IsMain(Positional(ns))
                 THEN except_FlowError("Refusing to publish main branch, use git push directly.",
                                       FlowError_status)
                 ELSE Goto("publish_fetch")
  /\ NoCall
  /\ UNCHANGED <<method, args, current_branch, branch, branches, org_repo, idx, remote_exists>>

do_publish_current_branch ==
  /\ pc = "publish_current_branch"
  /\ \E r \in subprocess_run(RevParseHead) :
       /\ subprocess_call("cap", RevParseHead, r)
       /\ IF r.rc # 0
          THEN UNCHANGED source /\ except_CalledProcessError("cap", r.rc)
          ELSE /\ source' = strip(r.stdout)
               /\ IF IsMain(strip(r.stdout))
                  THEN except_FlowError("Refusing to publish main branch, use git push directly.",
                                        FlowError_status)
                  ELSE Goto("publish_fetch")
  /\ UNCHANGED <<pargs, current_branch, branch, branches, org_repo, idx, remote_exists>>

\* _publish: the fetch; its CalledProcessError is caught and only recorded
publish_fetch ==
  /\ pc = "publish_fetch"
  /\ LET cmd == <<"fetch", "origin", source>>
     IN  \E r \in subprocess_run(cmd) :
           /\ subprocess_call("run", cmd, r)
           /\ remote_exists' = (r.rc = 0)
           /\ Goto("publish_push")
  /\ UNCHANGED <<pargs, current_branch, source, branch, branches, org_repo, idx>>
\* a variant of _push's extra_args that forces unconditionally
push_extra_args_force(no_verify, set_upstream, force) ==
  (IF no_verify THEN <<"--no-verify">> ELSE <<>>)
  \o (IF set_upstream THEN <<"--set-upstream">> ELSE <<>>)
  \o (IF force THEN <<"--force">> ELSE <<>>)

\* a variant of _push's extra_args that never asks for the upstream
push_extra_args_no_upstream(no_verify, set_upstream, force) ==
  (IF no_verify THEN <<"--no-verify">> ELSE <<>>)
  \o (IF force THEN <<"--force-with-lease">> ELSE <<>>)

\* _push's extra_args
push_extra_args(no_verify, set_upstream, force) ==
  (IF no_verify THEN <<"--no-verify">> ELSE <<>>)
  \o (IF set_upstream THEN <<"--set-upstream">> ELSE <<>>)
  \o (IF force THEN <<"--force-with-lease">> ELSE <<>>)

\* do_pr's pr_url
pr_url(groups, src) ==
  <<"https://github.com/", groups.group1, "/", groups.group2, "/pull/new/", src>>

\* _publish's call of _push; back in do_pr, the URL is printed and opened
publish_push ==
  /\ pc = "publish_push"
  /\ LET cmd == <<"push", "origin", source \o ":" \o source>>
                \o push_extra_args(pargs.no_verify, ~remote_exists, remote_exists)
     IN  \E r \in subprocess_run(cmd) :
           /\ subprocess_call("run", cmd, r)
           /\ IF r.rc # 0 THEN except_CalledProcessError("run", r.rc)
              ELSE IF method = "do_pr" THEN Return(<<pr_url(org_repo, source)>>)
              ELSE Return(<<>>)
  /\ UNCHANGED localVars

(* ------------------------------- do_pr -------------------------------- *)
\* a variant of do_pr that does not test a given source for the main branch
do_pr_no_refusal ==
  /\ pc = "do_pr"
  /\ LET ns == parse_args(method, args)
     IN  IF ns.error
         THEN argparse_error /\ UNCHANGED <<pargs, source>>
         ELSE /\ pargs' = ns
              /\ source' = Positional(ns)
              /\ IF Positional(ns) = None THEN Goto("pr_current_branch")
                 ELSE Goto("pr_get_url")
  /\ NoCall
  /\ UNCHANGED <<method, args, current_branch, branch, branches, org_repo, idx, remote_exists>>

do_pr ==
  /\ pc = "do_pr"
  /\ LET ns == parse_args(method, args)
     IN  IF ns.error
         THEN argparse_error /\ UNCHANGED <<pargs, source>>
         ELSE /\ pargs' = ns
              /\ source' = Positional(ns)
              /\ IF Positional(ns) = None THEN Goto("pr_current_branch")
                 ELSE IF IsMain(Positional(ns))
                 THEN except_FlowError("Refusing to publish main branch.", FlowError_status)
                 ELSE Goto("pr_get_url")
  /\ NoCall
  /\ UNCHANGED <<method, args, current_branch, branch, branches, org_repo, idx, remote_exists>>

do_pr_current_branch ==
  /\ pc = "pr_current_branch"
  /\ \E r \in subprocess_run(RevParseHead) :
       /\ subprocess_call("cap", RevParseHead, r)
       /\ IF r.rc # 0
          THEN UNCHANGED source /\ except_CalledProcessError("cap", r.rc)
          ELSE /\ source' = strip(r.stdout)
               /\ IF IsMain(strip(r.stdout))
                  THEN except_FlowError("Refusing to publish main branch.", FlowError_status)
                  ELSE Goto("pr_get_url")
  /\ UNCHANGED <<pargs, current_branch, branch, branches, org_repo, idx, remote_exists>>

do_pr_get_url ==
  /\ pc = "pr_get_url"
  /\ LET cmd == <<"remote", "get-url", "origin">>
     IN  \E r \in subprocess_run(cmd) :
           /\ subprocess_call("cap", cmd, r)
           /\ IF r.rc # 0
              THEN UNCHANGED org_repo /\ except_CalledProcessError("cap", r.rc)
              ELSE IF ~ORIGIN_PATTERN_match(r.stdout).matched
              THEN UNCHANGED org_repo /\ uncaught("AttributeError")
              ELSE org_repo' = ORIGIN_PATTERN_match(r.stdout) /\ Goto("publish_fetch")
  /\ UNCHANGED <<pargs, current_branch, source, branch, branches, idx, remote_exists>>

(* ------------------------------ do_land ------------------------------- *)
do_land ==
  /\ pc = "do_land"
  /\ LET ns == parse_args(method, args)
     IN  IF ns.error
         THEN argparse_error /\ UNCHANGED <<pargs, source>>
         ELSE /\ pargs' = ns
              /\ source' = Positional(ns)
              /\ Goto(IF Positional(ns) = None THEN "land_current_branch" ELSE "land_push")
  /\ NoCall
  /\ UNCHANGED <<method, args, current_branch, branch, branches, org_repo, idx, remote_exists>>

do_land_current_branch ==
  /\ pc = "land_current_branch"
  /\ \E r \in subprocess_run(RevParseHead) :
       /\ subprocess_call("cap", RevParseHead, r)
       /\ IF r.rc # 0
          THEN UNCHANGED source /\ except_CalledProcessError("cap", r.rc)
          ELSE source' = strip(r.stdout) /\ Goto("land_push")
  /\ UNCHANGED <<pargs, current_branch, branch, branches, org_repo, idx, remote_exists>>

\* do_land's target
land_target == Or(pargs.on, "main")
\* a variant of do_land_push that goes on to the fetch whatever the push did
do_land_push_continue ==
  /\ pc = "land_push"
  /\ LET cmd == <<"push", "origin", source \o ":" \o land_target>>
                \o (IF pargs.no_verify THEN <<"--no-verify">> ELSE <<>>)
     IN  \E r \in subprocess_run(cmd) :
           /\ subprocess_call("run", cmd, r)
           /\ Goto("land_fetch")
  /\ UNCHANGED localVars

do_land_push ==
  /\ pc = "land_push"
  /\ LET cmd == <<"push", "origin", source \o ":" \o land_target>>
                \o (IF pargs.no_verify THEN <<"--no-verify">> ELSE <<>>)
     IN  \E r \in subprocess_run(cmd) :
           /\ subprocess_call("run", cmd, r)
           /\ IF r.rc # 0 THEN except_CalledProcessError("run", r.rc) ELSE Goto("land_fetch")
  /\ UNCHANGED localVars
\* a variant of do_land_fetch that catches the fetch's failure and returns
do_land_fetch_swallow ==
  /\ pc = "land_fetch"
  /\ LET cmd == <<"fetch", "origin", land_target \o ":" \o land_target>>
     IN  \E r \in subprocess_run(cmd) :
           /\ subprocess_call("run", cmd, r)
           /\ Return(<<>>)
  /\ UNCHANGED localVars

\* a variant of do_land_fetch that fetches the target without naming the
\* local ref to update
do_land_fetch_bare ==
  /\ pc = "land_fetch"
  /\ LET cmd == <<"fetch", "origin", land_target>>
     IN  \E r \in subprocess_run(cmd) :
           /\ subprocess_call("run", cmd, r)
           /\ IF r.rc # 0 THEN except_CalledProcessError("run", r.rc) ELSE Return(<<>>)
  /\ UNCHANGED localVars

do_land_fetch ==
  /\ pc = "land_fetch"
  /\ LET cmd == <<"fetch", "origin", land_target \o ":" \o land_target>>
     IN  \E r \in subprocess_run(cmd) :
           /\ subprocess_call("run", cmd, r)
           /\ IF r.rc # 0 THEN except_CalledProcessError("run", r.rc) ELSE Return(<<>>)
  /\ UNCHANGED localVars

(* ---------------------------- do_unpublish ---------------------------- *)
do_unpublish ==
  /\ pc = "do_unpublish"
  /\ LET ns == parse_args(method, args)
     IN  IF ns.error
         THEN argparse_error /\ UNCHANGED pargs
         ELSE pargs' = ns /\ Goto("unpublish_current_branch")
  /\ NoCall
  /\ UNCHANGED <<method, args, current_branch, source, branch, branches, org_repo, idx,
                 remote_exists>>
\* a variant of next_branch for a loop that ends ("break") at a main branch
next_branch_break(bs, k) ==
  IF k <= Len(bs) /\ IsMain(bs[k]) THEN Len(bs) + 1 ELSE k

RECURSIVE next_branch(_, _)
\* the for loop's "continue": the first position from k on that does not name
\* the main branch, Len(bs) + 1 when there is none
next_branch(bs, k) ==
  IF k <= Len(bs) /\ IsMain(bs[k]) THEN next_branch(bs, k + 1) ELSE k
\* a variant of unpublish_loop that never checks main out first
unpublish_loop_stay(bs, k, cur) ==
  LET j == next_branch(bs, k)
      refusals == [x \in 1..(j - k) |-> "Refusing to delete main branch"]
  IN  /\ idx' = j
      /\ IF j > Len(bs) THEN Return(refusals)
         ELSE Step("unpublish_delete", exit, raised, <<>>, refusals)

\* the for loop from position k: one refusal is printed for every main branch
\* passed over; then the next branch is processed, or the handler returns
unpublish_loop(bs, k, cur) ==
  LET j == next_branch(bs, k)
      refusals == [x \in 1..(j - k) |-> "Refusing to delete main branch"]
  IN  /\ idx' = j
      /\ IF j > Len(bs) THEN Return(refusals)
         ELSE Step(IF bs[j] = cur THEN "unpublish_checkout" ELSE "unpublish_delete",
                   exit, raised, <<>>, refusals)

do_unpublish_current_branch ==
  /\ pc = "unpublish_current_branch"
  /\ \E r \in subprocess_run(RevParseHead) :
       /\ subprocess_call("cap", RevParseHead, r)
       /\ IF r.rc # 0
          THEN /\ UNCHANGED <<current_branch, branches, idx>>
               /\ except_CalledProcessError("cap", r.rc)
          ELSE LET cur == strip(r.stdout)
                   bs  == IF pargs.positional # <<>> THEN pargs.positional ELSE <<cur>>
               IN  /\ current_branch' = cur
                   /\ branches' = bs
                   /\ unpublish_loop(bs, 1, cur)
  /\ UNCHANGED <<pargs, source, branch, org_repo, remote_exists>>

do_unpublish_checkout ==
  /\ pc = "unpublish_checkout"
  /\ LET cmd == <<"checkout", "main">>
     IN  \E r \in subprocess_run(cmd) :
           /\ subprocess_call("run", cmd, r)
           /\ IF r.rc # 0 THEN except_CalledProcessError("run", r.rc)
              ELSE Goto("unpublish_delete")
  /\ UNCHANGED localVars
\* a variant of do_unpublish_delete that removes the local branch even when
\* the remote delete failed
do_unpublish_delete_then_rm ==
  /\ pc = "unpublish_delete"
  /\ LET cmd == <<"push", "origin", "--delete", branches[idx]>>
     IN  \E r \in subprocess_run(cmd) :
           /\ subprocess_call("run", cmd, r)
           /\ IF pargs.rm THEN UNCHANGED idx /\ Goto("unpublish_rm")
              ELSE IF r.rc # 0
              THEN UNCHANGED idx /\ except_CalledProcessError("run", r.rc)
              ELSE unpublish_loop(branches, idx + 1, current_branch)
  /\ UNCHANGED <<pargs, current_branch, source, branch, branches, org_repo, remote_exists>>

do_unpublish_delete ==
  /\ pc = "unpublish_delete"
  /\ LET cmd == <<"push", "origin", "--delete", branches[idx]>>
     IN  \E r \in subprocess_run(cmd) :
           /\ subprocess_call("run", cmd, r)
           /\ IF r.rc # 0
              THEN UNCHANGED idx /\ except_CalledProcessError("run", r.rc)
              ELSE IF pargs.rm THEN UNCHANGED idx /\ Goto("unpublish_rm")
              ELSE unpublish_loop(branches, idx + 1, current_branch)
  /\ UNCHANGED <<pargs, current_branch, source, branch, branches, org_repo, remote_exists>>
\* a variant of do_unpublish_rm that goes on with the next branch when the
\* local delete failed
do_unpublish_rm_continue ==
  /\ pc = "unpublish_rm"
  /\ LET cmd == <<"branch", "-d", branches[idx]>>
     IN  \E r \in subprocess_run(cmd) :
           /\ subprocess_call("run", cmd, r)
           /\ unpublish_loop(branches, idx + 1, current_branch)
  /\ UNCHANGED <<pargs, current_branch, source, branch, branches, org_repo, remote_exists>>

do_unpublish_rm ==
  /\ pc = "unpublish_rm"
  /\ LET cmd == <<"branch", "-d", branches[idx]>>
     IN  \E r \in subprocess_run(cmd) :
           /\ subprocess_call("run", cmd, r)
           /\ IF r.rc # 0
              THEN UNCHANGED idx /\ except_CalledProcessError("run", r.rc)
              ELSE unpublish_loop(branches, idx + 1, current_branch)
  /\ UNCHANGED <<pargs, current_branch, source, branch, branches, org_repo, remote_exists>>

(* ------------------------------- Spec --------------------------------- *)
Next ==
  \/ main
  \/ do_current_branch
  \/ do_up
  \/ do_up_current_branch
  \/ do_up_fetch
  \/ do_up_rebase
  \/ no_changes_diff
  \/ no_changes_diff_cached
  \/ no_changes_status
  \/ do_publish
  \/ do_publish_current_branch
  \/ publish_fetch
  \/ publish_push
  \/ do_pr
  \/ do_pr_current_branch
  \/ do_pr_get_url
  \/ do_land
  \/ do_land_current_branch
  \/ do_land_push
  \/ do_land_fetch
  \/ do_unpublish
  \/ do_unpublish_current_branch
  \/ do_unpublish_checkout
  \/ do_unpublish_delete
  \/ do_unpublish_rm

Spec == Init /\ [][Next]_vars

(* ------------------- publish beside another actor --------------------- *)
\* the commits another actor can put on origin: any commit of the local
\* history, or a commit of their own on top of it
OtherCommits == 0..(MaxCommit + 1)

\* another actor pushes (with or without force) to the branch of origin that
\* _publish is publishing, or creates it, before _publish's fetch or between
\* its fetch and its push; no call before the fetch reads origin, so an earlier
\* push is a push right before the fetch. The script's remote-tracking refs
\* are its own: only its git calls update them
other_push ==
  /\ pc \in {"publish_fetch", "publish_push"}
  /\ Len(others) < MaxOthers
  /\ \E c \in OtherCommits :
       /\ RefOf(origin, source) # <<c>>
       /\ origin' = Set(origin, source, c)
       /\ others' = Append(others, [pc |-> pc, branch |-> source, commit |-> c])
  /\ UNCHANGED <<procVars, unstaged, staged, head, local, tracking, configVars, histVars, faults>>

\* the invocations that resolve to publish
InitPublish ==
  /\ Init
  /\ remote_url = OriginUrl
  /\ \/ Path_name(argv[1]) = "publish"
     \/ Path_name(argv[1]) = "gflow" /\ Len(argv) > 1 /\ argv[2] = "publish"

NextPublish ==
  \/ main
  \/ no_changes_diff
  \/ no_changes_diff_cached
  \/ no_changes_status
  \/ do_publish
  \/ do_publish_current_branch
  \/ publish_fetch
  \/ publish_push
  \/ other_push

PublishSpec == InitPublish /\ [][NextPublish]_vars

(* ======================= the claims, C1 to C10 ======================== *)
Done == pc = "done"

Dirty == unstaged \/ staged

NeedsCleanTree == {"do_publish", "do_pr", "do_land"}

DiffCmd == <<"diff", "--exit-code">>

DiffCachedCmd == <<"diff", "--cached", "--exit-code">>

StatusCmd == <<"status">>

Cmds == {calls[k].cmd : k \in 1..Len(calls)}

LastCall == calls[Len(calls)]

AllCallsOk == \A k \in 1..Len(calls) : calls[k].rc = 0

\* the dirty-tree Workflow Failure: FlowError(), status 1, nothing printed
DirtyTreeFailure == raised = "FlowError" /\ exit = 1 /\ stderr = <<>>

\* the process ended in the Gateway Failure of its last call, one of cmds
GatewayFailureOf(cmds) ==
  /\ raised = "CalledProcessError"
  /\ calls # <<>>
  /\ LastCall.cmd \in cmds
  /\ LastCall.rc # 0
  /\ exit = LastCall.rc

\* C1 as stated: publish, pr and land on a tree with pending changes issue only
\* the diff checks and the status call, and end in the dirty-tree Workflow Failure.
C1_AsStated ==
  (method \in NeedsCleanTree /\ Dirty) =>
    /\ Cmds \subseteq {DiffCmd, DiffCachedCmd, StatusCmd}
    /\ Done => DirtyTreeFailure

\* C1 (amended): publish, pr and land on a tree with pending changes issue no push
\* and no fetch -- only the diff checks and, last, the diagnostic status call --
\* and end in the dirty-tree Workflow Failure (status 1, no message), or, when
\* the status call itself fails, in that call's Gateway Failure.
C1_DirtyTreeStops ==
  (method \in NeedsCleanTree /\ Dirty) =>
    /\ Cmds \subseteq {DiffCmd, DiffCachedCmd, StatusCmd}
    /\ \A k \in 1..Len(calls) : calls[k].cmd = StatusCmd => k = Len(calls) /\ Done
    /\ Done => /\ LastCall.cmd = StatusCmd
               /\ LastCall.rc = 0 => DirtyTreeFailure
               /\ LastCall.rc # 0 => GatewayFailureOf({StatusCmd})

\* C1 witness: pr stopped by staged changes alone, after both diff checks
C1_Witness ==
  /\ Done /\ method = "do_pr" /\ staged /\ ~unstaged
  /\ DirtyTreeFailure
  /\ Len(calls) = 3

\* publish of the main branch: the parse succeeds and the source, given or
\* defaulted to the branch checked out, is main or master
PublishesMain ==
  /\ method = "do_publish"
  /\ ~parse_args("do_publish", args).error
  /\ LET given == parse_args("do_publish", args).positional
     IN  IF given # <<>> THEN given[1] \in {"main", "master"} ELSE head0 \in {"main", "master"}

\* C2 as stated: publish of main or master raises a Workflow Failure and issues
\* no git call of any kind.
C2_AsStated == PublishesMain => calls = <<>> /\ (Done => raised = "FlowError")

\* C2 (amended): publish of main or master never issues a fetch or a push. The
\* only git calls are the cleanliness checks (diff, diff --cached, and status when
\* a check fails) and, when the source is defaulted, the current-branch query. It
\* ends in a Workflow Failure -- the refusal when every call succeeded -- unless
\* the status call or the current-branch query itself fails, which ends it in
\* that call's Gateway Failure.
C2_PublishMainRefused ==
  PublishesMain =>
    /\ Cmds \subseteq {DiffCmd, DiffCachedCmd, StatusCmd, RevParseHead}
    /\ Done =>
         /\ exit # 0
         /\ raised = "FlowError" \/ GatewayFailureOf({StatusCmd, RevParseHead})
         /\ AllCallsOk =>
              /\ raised = "FlowError" /\ exit = 1
              /\ stderr = <<"Refusing to publish main branch, use git push directly.">>

\* C2 witness: "publish master" on a clean tree, refused after the two checks
C2_Witness ==
  /\ Done /\ method = "do_publish" /\ args = <<"master">>
  /\ raised = "FlowError"
  /\ Len(calls) = 2 /\ AllCallsOk

IsPushCall(c) == c.cmd[1] = "push"

IsFetchCall(c) == c.cmd[1] = "fetch"

\* C3: in land, a failed push is the last git call of the invocation (the fetch
\* into the local ref never runs) and the local refs are as they were at the start.
C3_FailedPushEndsLand ==
  method = "do_land" =>
    \A k \in 1..Len(calls) :
      (IsPushCall(calls[k]) /\ calls[k].rc # 0) =>
        /\ k = Len(calls)
        /\ Done /\ raised = "CalledProcessError"
        /\ local = local0

\* C3 witness: land's push rejected by origin as no fast-forward
C3_Witness ==
  /\ Done /\ method = "do_land"
  /\ calls # <<>> /\ IsPushCall(LastCall) /\ LastCall.rc = 1
  /\ origin0["main"] > local0["fx"]

LandSuccess ==
  /\ exit = 0
  /\ land_target \in DOMAIN local /\ land_target \in DOMAIN origin
  /\ local[land_target] = origin[land_target]

\* C4 as stated: a finished land either succeeded, with the local target ref
\* updated, or failed with origin's target ref as it was before the invocation.
C4_AsStated ==
  (method = "do_land" /\ Done) =>
    \/ LandSuccess
    \/ exit # 0 /\ RefOf(origin, land_target) = RefOf(origin0, land_target)

\* C4 (amended): a finished land is in one of three states. Success: status 0
\* and the local target ref equals origin's. Abort: a failure status, no push
\* succeeded, origin's and the local refs are as before the invocation. Failed
\* sync: the push succeeded (origin's target ref is where the push put it), the
\* fetch into the local ref then failed, land exits with the fetch's status and
\* the local refs are as before; the push is not rolled back.
C4_LandTerminalStates ==
  (method = "do_land" /\ Done) =>
    \/ LandSuccess
    \/ /\ exit # 0
       /\ \A k \in 1..Len(calls) : IsPushCall(calls[k]) => calls[k].rc # 0
       /\ origin = origin0 /\ local = local0
    \/ /\ Len(calls) >= 2
       /\ IsPushCall(calls[Len(calls) - 1]) /\ calls[Len(calls) - 1].rc = 0
       /\ IsFetchCall(LastCall)
       /\ GatewayFailureOf({<<"fetch", "origin", land_target \o ":" \o land_target>>})
       /\ local = local0
       /\ \A n \in (DOMAIN origin \cup DOMAIN origin0) \ {land_target} :
            RefOf(origin, n) = RefOf(origin0, n)

\* C4 witness: land has exited with a failure status and origin's target ref is
\* no longer where it was, with no failure injected: the push of fx moved
\* origin's main, and git refused to fetch into main, the branch checked out
C4_Witness ==
  /\ Done /\ method = "do_land" /\ exit # 0 /\ faults = 0
  /\ RefOf(origin, land_target) # RefOf(origin0, land_target)

\* C5 as stated: land with no source and no --on, on a clean tree, pushes the
\* refspec "HEAD:main" and no other.
C5_AsStated ==
  ( /\ method = "do_land"
    /\ ~Dirty
    /\ ~parse_args("do_land", args).error
    /\ parse_args("do_land", args).positional = <<>>
    /\ parse_args("do_land", args).on = None )
  => \A k \in 1..Len(calls) : IsPushCall(calls[k]) => calls[k].cmd[3] = "HEAD:main"

\* C6: when land exits with status 0, its last two git calls are the push of
\* source:target and the fetch of target:target, both successful, and the local
\* target ref equals origin's; and a successful push is never left without
\* that fetch following it.
C6_LandSuccessSynced ==
  method = "do_land" =>
    /\ \A k \in 1..Len(calls) :
         (IsPushCall(calls[k]) /\ calls[k].rc = 0) =>
           \/ k = Len(calls) /\ pc = "land_fetch"
           \/ /\ k + 1 = Len(calls)
              /\ calls[k + 1].cmd = <<"fetch", "origin", land_target \o ":" \o land_target>>
    /\ (Done /\ exit = 0) =>
         /\ Len(calls) >= 2
         /\ calls[Len(calls) - 1].cmd[3] = source \o ":" \o land_target
         /\ IsPushCall(calls[Len(calls) - 1]) /\ calls[Len(calls) - 1].rc = 0
         /\ IsFetchCall(LastCall) /\ LastCall.rc = 0
         /\ LandSuccess

\* C6 witness: land succeeded and the local main ref moved to the pushed commit
C6_Witness ==
  /\ Done /\ method = "do_land" /\ exit = 0
  /\ local["main"] # local0["main"]
  /\ local["main"] = origin["main"] /\ origin["main"] # origin0["main"]

NotMainline(b) == b \notin {"main", "master"}

\* the names of a list that are not the mainline's, in the list's order
NonMainline(bs) == SelectSeq(bs, NotMainline)

IsDeleteCall(c) == c.cmd[1] = "push" /\ c.cmd[3] = "--delete"

IsCheckoutCall(c) == c.cmd[1] = "checkout"

\* the branch names of the remote deletes issued so far, in order
Deleted ==
  LET d == SelectSeq(calls, IsDeleteCall)
  IN  [k \in 1..Len(d) |-> d[k].cmd[4]]

IsPrefix(s, t) == Len(s) <= Len(t) /\ \A k \in 1..Len(s) : s[k] = t[k]

\* unpublish was given a list of names that contains the mainline's
ListsMainline ==
  /\ method = "do_unpublish"
  /\ \E j \in 1..Len(pargs.positional) : ~NotMainline(pargs.positional[j])

\* the position, among the non-mainline names, of the name call k works for:
\* a checkout precedes its name's remote delete, a branch -d follows it; the
\* current-branch query works for no name (position 0)
CallPos(k) ==
  LET n == Len(SelectSeq(SubSeq(calls, 1, k), IsDeleteCall))
  IN  IF calls[k].cmd = <<"rev-parse", "--abbrev-ref", "HEAD">> THEN 0
      ELSE IF IsCheckoutCall(calls[k]) THEN n + 1 ELSE n

NoMainlineDelete ==
  \A k \in 1..Len(calls) :
    (calls[k].cmd[1] = "branch" \/ IsDeleteCall(calls[k])) =>
      NotMainline(calls[k].cmd[Len(calls[k].cmd)])

\* C7 as stated: with the mainline's name in unpublish's list, nothing deletes
\* the mainline, the skip is no error, and every other name's remote delete is
\* issued provided the calls for the earlier names succeeded.
C7_AsStated ==
  ListsMainline =>
    /\ NoMainlineDelete
    /\ (Done /\ AllCallsOk) => (exit = 0 /\ raised = None)
    /\ Done =>
         \A j \in 1..Len(NonMainline(pargs.positional)) :
           (\A k \in 1..Len(calls) : CallPos(k) \in 1..(j - 1) => calls[k].rc = 0)
           => Len(Deleted) >= j

\* C7 (amended): with the mainline's name in unpublish's list, no remote or
\* local delete is issued for the mainline, the skip is no error (status 0 when
\* every call succeeds), the remote deletes issued are those of the other names
\* in the list's order, and each other name's remote delete is issued provided
\* the current-branch query, the calls for the earlier names and the name's own
\* checkout of main succeeded.
C7_MainlineSkipped ==
  ListsMainline =>
    /\ NoMainlineDelete
    /\ IsPrefix(Deleted, NonMainline(pargs.positional))
    /\ (Done /\ AllCallsOk) => (exit = 0 /\ raised = None)
    /\ Done =>
         \A j \in 1..Len(NonMainline(pargs.positional)) :
           (\A k \in 1..Len(calls) :
              (CallPos(k) \in 0..(j - 1) \/ (CallPos(k) = j /\ IsCheckoutCall(calls[k])))
              => calls[k].rc = 0)
           => Len(Deleted) >= j

\* C7 witness: unpublish of two branches with the mainline's name between
\* them has ended with status 0 after the remote deletes of both
C7_Witness ==
  /\ Done /\ method = "do_unpublish" /\ exit = 0
  /\ Len(pargs.positional) = 3 /\ ~NotMainline(pargs.positional[2])
  /\ Len(Deleted) = 2
  /\ Deleted = <<pargs.positional[1], pargs.positional[3]>>

\* C8: in unpublish, every remote delete of the branch that was checked out at
\* the start comes right after a successful checkout of main, and a failed
\* checkout is the invocation's last call: no remote delete follows it.
C8_CheckoutBeforeDelete ==
  method = "do_unpublish" =>
    \A k \in 1..Len(calls) :
      /\ (IsDeleteCall(calls[k]) /\ calls[k].cmd[4] = head0) =>
           /\ k > 1
           /\ calls[k - 1].cmd = <<"checkout", "main">>
           /\ calls[k - 1].rc = 0
      /\ (IsCheckoutCall(calls[k]) /\ calls[k].rc # 0) =>
           /\ k = Len(calls)
           /\ Done /\ raised = "CalledProcessError" /\ exit = calls[k].rc

\* C8 witness: the branch checked out at the start has been deleted on origin,
\* and main is checked out now
C8_Witness ==
  /\ method = "do_unpublish" /\ head0 = "fx" /\ head = "main"
  /\ \E k \in 1..Len(calls) :
       IsDeleteCall(calls[k]) /\ calls[k].cmd[4] = head0 /\ calls[k].rc = 0

\* the handler registered for an operation name
HandlerOf(n) ==
  CASE n = "current-branch" -> "do_current_branch"
    [] n = "up"             -> "do_up"
    [] n = "publish"        -> "do_publish"
    [] n = "unpublish"      -> "do_unpublish"
    [] n = "pr"             -> "do_pr"
    [] n = "land"           -> "do_land"

\* the base name of argv[0]
InvocationName == argv[1][Len(argv[1])]

\* neither the invocation name nor the first argument names an operation
NoOperationNamed ==
  /\ InvocationName \notin OpTokens
  /\ Len(argv) > 1 => argv[2] \notin OpTokens

\* C9: when neither the invocation name nor the first argument (if any) names
\* a registered operation, the dispatcher prints the usage message, exits with
\* status 1 and issues no git call.
C9_UnknownOperationUsage ==
  (NoOperationNamed /\ pc # "main") =>
    /\ Done /\ exit = 1
    /\ stdout = <<"Usage: {} action [opts...]">>
    /\ stderr = <<>>
    /\ calls = <<>>
    /\ method = None

\* C9 witness: the dispatcher has run on an invocation whose name is no
\* operation and whose first argument is a branch name
C9_Witness ==
  /\ NoOperationNamed /\ Done
  /\ Len(argv) > 1 /\ argv[2] \in BranchTokens

\* C10: once the dispatcher has run: if the invocation name is an operation,
\* its handler is chosen and receives argv[1:] unchanged, an operation name in
\* argv[1] included; otherwise, if there is a first argument and it is an
\* operation, its handler is chosen and receives exactly argv[2:]; otherwise
\* no handler is chosen.
C10_ResolutionOrder ==
  pc # "main" =>
    IF InvocationName \in OpTokens
    THEN method = HandlerOf(InvocationName) /\ args = Tail(argv)
    ELSE IF Len(argv) > 1 /\ argv[2] \in OpTokens
    THEN method = HandlerOf(argv[2]) /\ args = SubSeq(argv, 3, Len(argv))
    ELSE method = None

\* C10 witness: invoked as "land" with first argument "publish", land has
\* taken "publish" as its source and pushed it
C10_Witness ==
  /\ InvocationName = "land" /\ Len(argv) > 1 /\ argv[2] = "publish"
  /\ method = "do_land" /\ source = "publish"
  /\ calls # <<>> /\ IsPushCall(LastCall) /\ LastCall.cmd[3] = "publish:main"

\* call k's failure ended the process: it is the last call, main caught its
\* CalledProcessError and exited with the call's status
SurfacedFailure(k) ==
  /\ k = Len(calls)
  /\ raised = "CalledProcessError"
  /\ exit = calls[k].rc

\* the fetch _publish issues first (publish and pr issue no other fetch)
IsPublishFetch(c) == method \in {"do_publish", "do_pr"} /\ IsFetchCall(c)

\* C11 as stated: whenever a git call exits with a non-zero status s, the
\* process exits with exactly s; a Workflow Failure exits with status 1.
C11_AsStated ==
  Done =>
    /\ \A k \in 1..Len(calls) : calls[k].rc # 0 => exit = calls[k].rc
    /\ raised = "FlowError" => exit = 1

\* C11 (amended): a git call that exits with a non-zero status s ends the
\* process with exactly status s, as its last call, except for the two failures
\* the handlers catch: a non-zero pending-changes diff check is followed by the
\* status call and (when that succeeds) the dirty-tree Workflow Failure, and a
\* failed preliminary fetch of safe publish is followed by the push that sets
\* the upstream. A Workflow Failure exits with its carried status 1.
C11_FailureStatus ==
  /\ \A k \in 1..Len(calls) :
       calls[k].rc # 0 =>
         IF calls[k].cmd \in {DiffCmd, DiffCachedCmd}
         THEN \/ k = Len(calls) /\ pc = "no_changes_status"
              \/ /\ k + 1 = Len(calls)
                 /\ calls[k + 1].cmd = StatusCmd
                 /\ Done
                 /\ IF calls[k + 1].rc = 0 THEN DirtyTreeFailure ELSE SurfacedFailure(k + 1)
         ELSE IF IsPublishFetch(calls[k])
         THEN \/ k = Len(calls) /\ pc = "publish_push"
              \/ /\ k + 1 = Len(calls)
                 /\ IsPushCall(calls[k + 1])
                 /\ \E i \in 4..Len(calls[k + 1].cmd) : calls[k + 1].cmd[i] = "--set-upstream"
                 /\ Done
         ELSE Done /\ SurfacedFailure(k)
  /\ raised = "FlowError" => (Done /\ exit = FlowError_status)

\* C11 witness: up has ended with the status of its rebase, which git refused
\* to run on a tree with pending changes: no failure was injected
C11_Witness ==
  /\ Done /\ method = "do_up" /\ faults = 0
  /\ calls # <<>> /\ LastCall.cmd[1] = "rebase"
  /\ LastCall.rc # 0 /\ exit = LastCall.rc /\ raised = "CalledProcessError"

IsRunCall(c) == c.kind \in {"run", "run-quiet"}

\* the calls made through run, in order
RunCalls == SelectSeq(calls, IsRunCall)

IsCapCall(c) == c.kind = "cap"

\* the push safe publish must issue after a fetch that ended with status rc
SafePush(rc) ==
  <<"push", "origin", source \o ":" \o source>>
  \o (IF pargs.no_verify THEN <<"--no-verify">> ELSE <<>>)
  \o (IF rc # 0 THEN <<"--set-upstream">> ELSE <<"--force-with-lease">>)

UrlParsed ==
  /\ method = "do_pr" /\ pc # "pr_get_url"
  /\ \E k \in 1..Len(calls) : calls[k].cmd = <<"remote", "get-url", "origin">> /\ calls[k].rc = 0

\* C13 as stated: the URL git@h:o/r.git (standing for
\* git@github.com:orgname/reponame.git) parses to organization "o" and
\* repository "r", without the ".git"; the URL without ".git" parses to the
\* same; a URL that is not of the shape host:org/repo makes the parse fail.
C13_AsStated ==
  UrlParsed =>
    IF remote_url \in {OriginUrl, OriginUrlBare}
    THEN org_repo.matched /\ org_repo.group1 = <<"o">> /\ org_repo.group2 = <<"r">>
    ELSE raised = "AttributeError" /\ Done /\ ~org_repo.matched

\* another actor pushed to the branch being published after publish's fetch
\* and before its push
MovedSinceFetch ==
  \E i \in 1..Len(others) : others[i].pc = "publish_push" /\ others[i].branch = source

\* publish's push was rejected and surfaced: it is the last call, it failed,
\* the process exited with its status
PushRejected ==
  /\ Done /\ calls # <<>> /\ IsPushCall(LastCall)
  /\ LastCall.rc # 0 /\ raised = "CalledProcessError" /\ exit = LastCall.rc

\* C14 as stated: when another actor moves or creates the remote branch between
\* publish's fetch and its push, the push is rejected, surfaces as a Gateway
\* Failure, and the remote branch stays where the other actor put it.
C14_AsStated ==
  (method = "do_publish" /\ Done /\ MovedSinceFetch) =>
    /\ PushRejected
    /\ RefOf(origin, source) = <<others[Len(others)].commit>>

\* publish's push step
PublishPushStep == method = "do_publish" /\ pc = "publish_push" /\ pc' = "done"

\* C14 (amended): publish's push never replaces a remote tip it did not
\* observe. After a successful fetch, if the remote tip is not the one the
\* fetch observed when the push is issued, the push is rejected, surfaces as a
\* Gateway Failure and leaves origin as it is. After a failed fetch the push is
\* not forced: it is rejected in the same way unless the remote branch is
\* absent or its tip is an ancestor of the pushed commit, which then stays in
\* the branch's history. A push that is accepted after a successful fetch
\* replaces exactly the tip the fetch observed.
C14_NoClobber ==
  [][PublishPushStep =>
       LET before   == RefOf(origin, source)
           rejected == /\ origin' = origin
                       /\ raised' = "CalledProcessError"
                       /\ calls'[Len(calls')].rc # 0
                       /\ exit' = calls'[Len(calls')].rc
       IN  /\ rejected \/ (exit' = 0 /\ source \in DOMAIN origin')
           /\ (remote_exists /\ before # RefOf(tracking, source)) => rejected
           /\ (~remote_exists /\ before # <<>> /\ ~rejected) => before[1] <= origin'[source]
  ]_vars

\* C14 witness: with no failure injected, publish's fetch succeeded, another
\* actor then moved the remote branch, and the push with --force-with-lease was
\* rejected: the remote branch is where the other actor put it
C14_Witness ==
  /\ method = "do_publish" /\ MovedSinceFetch /\ faults = 0
  /\ remote_exists /\ PushRejected
  /\ LastCall.cmd[Len(LastCall.cmd)] = "--force-with-lease"
  /\ RefOf(origin, source) = <<others[Len(others)].commit>>
  /\ RefOf(origin, source) # RefOf(origin0, source)

\* C15 as stated: once a git call has failed, no further git call is issued
\* (read in the claim's favour: a diff check that exits non-zero reports
\* pending changes and is not counted as a failed call).
C15_AsStated ==
  \A k \in 1..Len(calls) :
    (calls[k].rc # 0 /\ calls[k].cmd \notin {DiffCmd, DiffCachedCmd}) => k = Len(calls)

\* C15 (amended): git calls are issued one at a time, each after the one
\* before it has ended, and a failed call is the last call of the invocation,
\* with two exceptions: a pending-changes diff check that exits non-zero is
\* followed by exactly one more call, the diagnostic status, and a failed
\* preliminary fetch of safe publish is followed by exactly one more call, the
\* push.
C15_FailureAborts ==
  /\ [](\A k \in 1..Len(calls) :
          calls[k].rc # 0 =>
            \/ k = Len(calls)
            \/ /\ calls[k].cmd \in {DiffCmd, DiffCachedCmd}
               /\ k + 1 = Len(calls) /\ calls[k + 1].cmd = StatusCmd
            \/ /\ IsPublishFetch(calls[k])
               /\ k + 1 = Len(calls) /\ IsPushCall(calls[k + 1]))
  /\ [][\/ calls' = calls
        \/ Len(calls') = Len(calls) + 1 /\ SubSeq(calls', 1, Len(calls)) = calls]_vars

\* C15 witness: "up fx" with main checked out: git refused the fetch into the
\* checked-out branch, and up ended there, without the rebase it would
\* otherwise have issued
C15_Witness ==
  /\ Done /\ method = "do_up" /\ faults = 0
  /\ branch # Or(pargs.on, "main")
  /\ calls # <<>> /\ IsFetchCall(LastCall) /\ LastCall.rc # 0
  /\ exit = LastCall.rc

\* up's on
UpOn == Or(pargs.on, "main")

UpFetch == <<"fetch", "origin", "+" \o UpOn \o ":" \o UpOn>>

IsRebaseCall(c) == c.cmd[1] = "rebase"

\* the position of up's fetch among its calls: 1 when the branch was given,
\* 2 after the query for the current branch
UpFetchPos == IF pargs.positional = <<>> THEN 2 ELSE 1

IsBranchDCall(c) == c.cmd[1] = "branch"

\* C17: in unpublish, every local delete (branch -d) comes right after the
\* successful remote delete of the same branch, and only with --rm; with --rm
\* a successful remote delete is followed by that branch's local delete; a
\* failed remote delete is the invocation's last call and ends it with the
\* call's status.
C17_RemoteThenLocal ==
  method = "do_unpublish" =>
    \A k \in 1..Len(calls) :
      /\ IsBranchDCall(calls[k]) =>
           /\ pargs.rm /\ k > 1
           /\ IsDeleteCall(calls[k - 1]) /\ calls[k - 1].rc = 0
           /\ calls[k].cmd = <<"branch", "-d", calls[k - 1].cmd[4]>>
      /\ (IsDeleteCall(calls[k]) /\ calls[k].rc # 0) =>
           Done /\ SurfacedFailure(k)
      /\ (IsDeleteCall(calls[k]) /\ calls[k].rc = 0 /\ pargs.rm) =>
           \/ k = Len(calls) /\ pc = "unpublish_rm"
           \/ k < Len(calls) /\ IsBranchDCall(calls[k + 1])

\* C17 witness: unpublish --rm of two branches has ended with status 0: each
\* remote delete was followed by the local delete, and both branches are gone
\* from origin and from the local repository
C17_Witness ==
  /\ Done /\ method = "do_unpublish" /\ exit = 0 /\ pargs.rm
  /\ Len(Deleted) = 2 /\ Len(SelectSeq(calls, IsBranchDCall)) = 2
  /\ \A j \in 1..2 : Deleted[j] \notin DOMAIN origin /\ Deleted[j] \notin DOMAIN local

\* pr of the main branch: the parse succeeds and the source, given or
\* defaulted to the branch checked out, is main or master
PrOfMainline ==
  /\ method = "do_pr"
  /\ ~parse_args("do_pr", args).error
  /\ LET given == parse_args("do_pr", args).positional
     IN  IF given # <<>> THEN given[1] \in {"main", "master"} ELSE head0 \in {"main", "master"}

\* C18: pr of main or master never queries the origin URL, never fetches,
\* never pushes and prints no review URL: its only git calls are the
\* cleanliness checks and the current-branch query. On a clean tree, when those
\* calls succeed, it ends in the Workflow Failure "Refusing to publish main
\* branch." with status 1.
C18_PrMainlineRefused ==
  PrOfMainline =>
    /\ Cmds \subseteq {DiffCmd, DiffCachedCmd, StatusCmd, RevParseHead}
    /\ stdout = <<>>
    /\ org_repo = NoMatch
    /\ (Done /\ ~Dirty /\ AllCallsOk) =>
         /\ raised = "FlowError" /\ exit = 1
         /\ stderr = <<"Refusing to publish main branch.">>
         /\ StatusCmd \notin Cmds

\* C18 witness: pr with no source on a clean tree with main checked out has
\* been refused after the two diff checks and the current-branch query
C18_Witness ==
  /\ PrOfMainline /\ Done /\ ~Dirty /\ args = <<>>
  /\ raised = "FlowError" /\ exit = 1
  /\ stderr = <<"Refusing to publish main branch.">>
  /\ Len(calls) = 3 /\ LastCall.cmd = RevParseHead

\* the commands issued so far, in order
CmdSeq == [k \in 1..Len(calls) |-> calls[k].cmd]

\* the commands up issues when no call fails for a reason outside the
\* repository, worked out from the arguments, the branch checked out and the
\* refs at the start, and from nothing else
ExpectedUp ==
  LET ns == parse_args("do_up", args)
      br == IF ns.positional = <<>> THEN head0 ELSE ns.positional[1]
      on == IF ns.on = None THEN "main" ELSE ns.on
      fetched == on \in DOMAIN origin0 /\ on # head0
  IN  (IF ns.positional = <<>> THEN <<RevParseHead>> ELSE <<>>)
      \o << <<"fetch", "origin", "+" \o on \o ":" \o on>> >>
      \o (IF fetched /\ br # on THEN << <<"rebase", on>> >> ELSE <<>>)

RECURSIVE ExpectedLoop(_, _, _, _, _, _, _)
\* the commands unpublish's loop issues from position k on a clean tree, with
\* hd checked out and the refs loc and org, when only git's own rules fail a call
ExpectedLoop(bs, k, cur, rm, hd, loc, org) ==
  IF k > Len(bs) THEN <<>>
  ELSE IF ~NotMainline(bs[k]) THEN ExpectedLoop(bs, k + 1, cur, rm, hd, loc, org)
  ELSE LET b     == bs[k]
           co    == b = cur
           coOk  == "main" \in DOMAIN loc
           hd2   == IF co THEN "main" ELSE hd
           delOk == b \in DOMAIN org
           rmOk  == b \in DOMAIN loc /\ b # hd2
           after == IF ~rm THEN ExpectedLoop(bs, k + 1, cur, rm, hd2, loc, Del(org, b))
                    ELSE << <<"branch", "-d", b>> >>
                         \o (IF rmOk
                             THEN ExpectedLoop(bs, k + 1, cur, rm, hd2, Del(loc, b), Del(org, b))
                             ELSE <<>>)
       IN  IF co /\ ~coOk THEN << <<"checkout", "main">> >>
           ELSE (IF co THEN << <<"checkout", "main">> >> ELSE <<>>)
                \o << <<"push", "origin", "--delete", b>> >>
                \o (IF delOk THEN after ELSE <<>>)

ExpectedUnpublish ==
  LET ns == parse_args("do_unpublish", args)
      bs == IF ns.positional = <<>> THEN <<head0>> ELSE ns.positional
  IN  <<RevParseHead>> \o ExpectedLoop(bs, 1, head0, ns.rm, head0, local0, origin0)

Expected == IF method = "do_up" THEN ExpectedUp ELSE ExpectedUnpublish

NoCleanlinessCheck ==
  /\ Cmds \cap {DiffCmd, DiffCachedCmd, StatusCmd} = {}
  /\ raised # "FlowError"

\* an invocation of up or unpublish whose arguments parsed, in which no call
\* failed for a reason outside the repository, and which has ended
PlainRun ==
  /\ method \in {"do_up", "do_unpublish"}
  /\ Done /\ raised # "SystemExit" /\ faults = 0

\* C19 as stated: up and unpublish never issue the diff checks or the status
\* call and never raise the dirty-tree Workflow Failure, and the commands they
\* issue are the same whether or not the tree has pending changes: they are
\* determined by the arguments, the branch checked out and the refs.
C19_AsStated ==
  /\ method \in {"do_up", "do_unpublish"} => NoCleanlinessCheck
  /\ PlainRun => CmdSeq = Expected

\* C19 (amended): up and unpublish never issue the diff checks or the status
\* call and never raise the dirty-tree Workflow Failure. The commands up issues
\* are the same whether or not the tree has pending changes. Those unpublish
\* issues are the same, except that on a tree with pending changes git may
\* refuse the checkout of main: the checkout is then the last call, and the
\* commands issued are those of the clean tree up to and including it.
C19_NoCleanlinessPrecondition ==
  /\ method \in {"do_up", "do_unpublish"} => NoCleanlinessCheck
  /\ PlainRun =>
       \/ CmdSeq = Expected
       \/ /\ method = "do_unpublish" /\ Dirty
          /\ LastCall.cmd = <<"checkout", "main">> /\ LastCall.rc # 0
          /\ Len(CmdSeq) < Len(Expected) /\ IsPrefix(CmdSeq, Expected)

\* C19 witness: on a tree with pending changes, unpublish of the branch
\* checked out has checked main out and deleted the branch on origin
C19_Witness ==
  /\ PlainRun /\ method = "do_unpublish" /\ Dirty /\ exit = 0
  /\ CmdSeq = <<RevParseHead, <<"checkout", "main">>, <<"push", "origin", "--delete", head0>> >>

\* C20: in unpublish, a failed checkout, remote delete or local delete is the
\* invocation's last call: nothing is issued for a later branch, the process
\* exits with the failed call's status, and what the earlier calls deleted
\* stays deleted, on origin and locally.
C20_BatchStopsAtFailure ==
  method = "do_unpublish" =>
    \A k \in 1..Len(calls) :
      calls[k].rc # 0 =>
        /\ Done /\ SurfacedFailure(k)
        /\ \A j \in 1..(k - 1) :
             /\ calls[j].rc = 0
             /\ IsDeleteCall(calls[j]) => calls[j].cmd[4] \notin DOMAIN origin
             /\ IsBranchDCall(calls[j]) => calls[j].cmd[3] \notin DOMAIN local

\* C20 witness: with no failure injected, unpublish of three branches deleted
\* the first on origin, origin refused the delete of the second, which it does
\* not have, and unpublish ended there with that status: nothing was issued for
\* the third, and the first stays deleted
C20_Witness ==
  /\ Done /\ method = "do_unpublish" /\ faults = 0
  /\ Len(NonMainline(pargs.positional)) = 3
  /\ Len(Deleted) = 2 /\ IsDeleteCall(LastCall) /\ LastCall.rc # 0
  /\ exit = LastCall.rc
  /\ Deleted[1] \in DOMAIN origin0 /\ Deleted[1] \notin DOMAIN origin

====
